---- MODULE Spec2Model ----
(***************************************************************************)
(* A model of pyteal/ast/subroutine.py: SubroutineDefinition (the id       *)
(* allocator, the signature validation, invoke, the memoised               *)
(* getDeclaration), SubroutineCall (construction and lowering),            *)
(* SubroutineFnWrapper and evaluateSubroutine.                             *)
(*                                                                         *)
(* The specifications share the variables:                                 *)
(*   SpecDef      constructions of SubroutineDefinition, one thread        *)
(*   SpecCall     invoke / SubroutineCall / __teal__ on one Definition     *)
(*   Spec         getDeclaration / evaluateSubroutine on two Definitions   *)
(*                whose host implementations build calls to each other     *)
(*   FairSpec     the same, a called implementation running on             *)
(*   SpecThreads  constructions from several threads, one bytecode-level   *)
(*                step of lines 46-47 at a time                            *)
(***************************************************************************)
EXTENDS Integers, Sequences, FiniteSets, TLC

VARIABLES
    nextSubroutineId,   \* SubroutineDefinition.nextSubroutineId (class attribute)
    issued,             \* ghost: the ids handed out, in construction order
    defs,               \* the live SubroutineDefinition objects
    call,               \* the SubroutineCall node built last, if any
    result,             \* outcome of the last operation (return value or raised error)
    stack,              \* Python call stack of getDeclaration/evaluateSubroutine frames
    nextSlotId,         \* the program-wide scratch slot counter
    nextObj,            \* allocator of object identities for SubroutineDeclaration
    hist,               \* ghost: per Definition, its implementation runs and their outcomes
    requests,           \* ghost: number of top-level getDeclaration requests so far
    pc, local,          \* SpecThreads: each thread's position in __init__ and its locals
    overlap             \* ghost: two constructions were in progress at the same time

vars == <<nextSubroutineId, issued, defs, call, result, stack, nextSlotId, nextObj,
          hist, requests, pc, local, overlap>>

None == "None"

\* input_types = None (the argument's default), as a value comparable with lists.
NoInputTypes == <<None>>

\* self.declaration = None.
NoDeclaration == [isNone |-> TRUE]

\* ---------------------------------------------------------------- bounds
MaxSigParams == 1
MaxCallParams == 2
MaxConstructions == 3
MaxParams == 3
NumThreads == 2
PerThread == 2
MaxRequests == 2
MaxDepth == 2

\* ------------------------------------------------------------ input sets
RECURSIVE SeqsUpTo(_, _)
SeqsUpTo(S, n) ==
    IF n = 0 THEN {<<>>}
    ELSE LET shorter == SeqsUpTo(S, n - 1)
         IN  shorter \cup {Append(s, x) : s \in {t \in shorter : Len(t) = n - 1}, x \in S}

\* inspect.Parameter of a host function: its kind, whether it has a default,
\* and its entry in __annotations__ ("absent" when there is none; "notclass"
\* is an annotation that is not a class, "int" a class other than Expr/ScratchVar).
GoodParams ==
    {[kind |-> "POSITIONAL_OR_KEYWORD", default |-> FALSE, ann |-> a] :
        a \in {"absent", "Expr", "ScratchVar"}}

BadParams ==
    {[kind |-> "POSITIONAL_OR_KEYWORD", default |-> FALSE, ann |-> "int"],
     [kind |-> "POSITIONAL_OR_KEYWORD", default |-> FALSE, ann |-> "notclass"],
     [kind |-> "KEYWORD_ONLY", default |-> FALSE, ann |-> "Expr"],
     [kind |-> "POSITIONAL_OR_KEYWORD", default |-> TRUE, ann |-> "Expr"]}

\* A host implementation as __init__ sees it: callable or not, its signature,
\* and its "return" annotation ("absent", "Expr" or another type).
Implementations(n) ==
    {[callable |-> TRUE, params |-> ps, ret |-> r] :
        ps \in SeqsUpTo(GoodParams \cup BadParams, n), r \in {"absent", "Expr", "other"}}
    \cup {[callable |-> FALSE, params |-> <<>>, ret |-> "absent"]}

InputTealTypes == {"uint64", "anytype"}

InputTypeLists(n) == {NoInputTypes} \cup SeqsUpTo(InputTealTypes, n)

\* ------------------------------------------------- SubroutineDefinition
\* ptype.type_of() of line 147 for the annotation Expr: the TealType a
\* by-value annotation stands for, which accepts any value.
ClassTypeOf(ptype) == "anytype"

Err(msg, index) == [ok |-> FALSE, err |-> msg, index |-> index]

\* _validate_parameter_type: the expected argument class, or the error raised.
ValidateParameterType(ptype, input_type) ==
    IF ptype = "absent" THEN [ok |-> TRUE, type |-> "Expr"]
    ELSE IF ptype = "notclass" THEN [ok |-> FALSE, err |-> "not a class"]
    ELSE IF ptype \notin {"Expr", "ScratchVar"} THEN [ok |-> FALSE, err |-> "disallowed type"]
    ELSE IF ptype = "Expr" /\ input_type # None /\ ClassTypeOf(ptype) # input_type
         THEN [ok |-> FALSE, err |-> "contradicts declared input_type"]
    ELSE [ok |-> TRUE, type |-> ptype]

\* Lines 94-96: input_type is set to None and then tested for truth, so the
\* assignment from input_types[i] is never executed.
LoopInputType(input_types, i) ==
    LET input_type == None
    IN  IF input_type # None THEN input_types[i] ELSE input_type

\* One iteration of the loop of lines 75-103: "ok" or the error it raises.
ParamCheck(param, input_types, i) ==
    IF param.kind \notin {"POSITIONAL_ONLY", "POSITIONAL_OR_KEYWORD"}
        THEN [ok |-> FALSE, err |-> "parameter kind not allowed"]
    ELSE IF param.default THEN [ok |-> FALSE, err |-> "parameter with a default value"]
    ELSE ValidateParameterType(param.ann, LoopInputType(input_types, i))

\* The id a construction takes and the counter it leaves (lines 46-47).
TakeId(counter) == counter

BumpCounterLost(counter) == counter

BumpCounter(counter) == counter + 1

\* SubroutineDefinition.__init__ after lines 45-47: the new object, or the error.
NewDefinition(id, impl, returnType, input_types) ==
    LET sig_params == impl.params
        n == Len(sig_params)
        check(i) == ParamCheck(sig_params[i], input_types, i)
        bad == {i \in 1..n : ~check(i).ok}
        first == CHOOSE i \in bad : \A j \in bad : i <= j
    IN  IF ~impl.callable THEN Err("not callable", 0)
        ELSE IF input_types # NoInputTypes /\ Len(input_types) # n
            THEN Err("number of input_types does not match", 0)
        ELSE IF impl.ret \notin {"absent", "Expr"} THEN Err("disallowed return type", 0)
        ELSE IF bad # {} THEN Err(check(first).err, first)
        ELSE [ok |-> TRUE,
              def |-> [id |-> id,
                       input_types |-> input_types,
                       by_ref_args |-> {i \in 1..n : check(i).type = "ScratchVar"},
                       expected_arg_types |-> [i \in 1..n |-> check(i).type],
                       implementation |-> impl,
                       returnType |-> returnType,
                       declaration |-> NoDeclaration]]

\* argumentCount() and arguments(): parameters are named by their position.
argumentCount(d) == Len(d.implementation.params)

arguments(d) == [i \in 1..argumentCount(d) |-> i]

\* ---------------------------------------------------------------- SpecDef
NoResult == [op |-> "none"]

NoCall == [isNone |-> TRUE]

NoThreads ==
    /\ pc = <<>>
    /\ local = <<>>
    /\ overlap = FALSE

NoCompilation ==
    /\ stack = <<>>
    /\ nextSlotId = 0
    /\ nextObj = 0
    /\ hist = <<>>
    /\ requests = 0

InitDef ==
    /\ nextSubroutineId = 0
    /\ issued = <<>>
    /\ defs = <<>>
    /\ call = NoCall
    /\ result = NoResult
    /\ NoCompilation
    /\ NoThreads

\* SubroutineFnWrapper.__init__: bind a host function to a new Definition. The
\* wrapper holds the one Definition of this specification; an earlier one is
\* no longer referenced, and its id stays recorded in issued.
Construct(impl, returnType, input_types) ==
    LET id == TakeId(nextSubroutineId)
        r == NewDefinition(id, impl, returnType, input_types)
    IN  /\ nextSubroutineId' = BumpCounter(nextSubroutineId)
        /\ issued' = Append(issued, id)
        /\ defs' = IF r.ok THEN <<r.def>> ELSE defs
        /\ result' = [op |-> "construct", ok |-> r.ok,
                      err |-> IF r.ok THEN None ELSE r.err]
        /\ UNCHANGED <<call, stack, nextSlotId, nextObj, hist, requests, pc, local, overlap>>

NextDef ==
    /\ Len(issued) < MaxConstructions
    /\ \E impl \in Implementations(MaxSigParams), it \in InputTypeLists(MaxSigParams) :
            Construct(impl, "uint64", it)

SpecDef == InitDef /\ [][NextDef]_vars

\* --------------------------------------------------------------- SpecCall
\* Values a caller passes: an Expr of some TealType with its lowered code, a
\* ScratchVar with its slot, or a Python object that is neither ("int").
IntExpr(v) ==
    [cls |-> "Expr", type |-> "uint64", slot |-> -1, callee |-> 0,
     code |-> <<[op |-> "int", arg |-> v]>>]

PopExpr(v) ==
    [cls |-> "Expr", type |-> "none", slot |-> -1, callee |-> 0,
     code |-> <<[op |-> "int", arg |-> v], [op |-> "pop", arg |-> 0]>>]

ScratchVarAt(s) ==
    [cls |-> "ScratchVar", type |-> "anytype", slot |-> s, callee |-> 0, code |-> <<>>]

PyObject == [cls |-> "int", type |-> "anytype", slot |-> -1, callee |-> 0, code |-> <<>>]

ArgValues == {IntExpr(7), PopExpr(8), ScratchVarAt(5), PyObject}

\* isinstance(arg, atype): Expr and ScratchVar are unrelated classes.
IsInstance(arg, atype) == arg.cls = atype

\* Expr.type_of() for an Expr argument, ScratchVar.type otherwise (line 250).
ArgType(arg) == arg.type

\* SubroutineCall.__init__ (lines 233-257): the node, or the error raised at
\* the first argument that is neither Expr nor ScratchVar or is typed none.
SubroutineCallInit(d, args) ==
    LET bad == {i \in 1..Len(args) :
                   \/ ~(IsInstance(args[i], "Expr") \/ IsInstance(args[i], "ScratchVar"))
                   \/ ArgType(args[i]) = "none"}
        first == CHOOSE i \in bad : \A j \in bad : i <= j
    IN  IF bad = {} THEN [ok |-> TRUE, call |-> [subroutine |-> d.id, args |-> args]]
        ELSE IF ~(IsInstance(args[first], "Expr") \/ IsInstance(args[first], "ScratchVar"))
            THEN Err("unexpected Python type", first - 1)
        ELSE Err("evaluates to TealType.none", first - 1)

\* The arity test of invoke (line 175).
ArityMismatchTooManyOnly(d, args) == Len(args) > argumentCount(d)

ArityMismatch(d, args) == Len(args) # argumentCount(d)

\* The loop of lines 182-189: the positions whose argument is no instance of
\* the expected class.
KindMismatchesByRefOnly(d, args) ==
    {i \in 1..Len(args) : d.expected_arg_types[i] = "ScratchVar"
                          /\ ~IsInstance(args[i], d.expected_arg_types[i])}

KindMismatches(d, args) ==
    {i \in 1..Len(args) : ~IsInstance(args[i], d.expected_arg_types[i])}

\* SubroutineDefinition.invoke (lines 174-191).
invoke(d, args) ==
    IF ArityMismatch(d, args) THEN Err("incorrect number of arguments", -1)
    ELSE LET bad == KindMismatches(d, args)
             first == CHOOSE i \in bad : \A j \in bad : i <= j
         IN  IF bad # {} THEN Err("argument had unexpected type", first - 1)
             ELSE SubroutineCallInit(d, args)

\* SubroutineFnWrapper.__call__ (lines 315-322).
FnWrapperCall(d, args, kwargs) ==
    IF kwargs # {} THEN Err("called with keyword arguments", -1)
    ELSE invoke(d, args)

InvokeResult(op, r, args, kwargs) ==
    [op |-> op, ok |-> r.ok, args |-> args, kwargs |-> kwargs,
     err |-> IF r.ok THEN None ELSE r.err,
     index |-> IF r.ok THEN -1 ELSE r.index]

\* A caller invokes the Definition directly.
Invoke(args) ==
    LET r == invoke(defs[1], args)
    IN  /\ call' = IF r.ok THEN r.call ELSE call
        /\ result' = InvokeResult("invoke", r, args, {})
        /\ UNCHANGED <<nextSubroutineId, issued, defs, stack, nextSlotId, nextObj,
                       hist, requests, pc, local, overlap>>

\* A caller calls the wrapper, with or without keyword arguments.
WrapperCall(args, kwargs) ==
    LET r == FnWrapperCall(defs[1], args, kwargs)
    IN  /\ call' = IF r.ok THEN r.call ELSE call
        /\ result' = InvokeResult("__call__", r, args, kwargs)
        /\ UNCHANGED <<nextSubroutineId, issued, defs, stack, nextSlotId, nextObj,
                       hist, requests, pc, local, overlap>>

\* Op.callsub.min_version, the first argument of verifyTealVersion.
CallsubMinVersion == 4

TealVersions == 2..6

\* ScratchVar.index(): an expression pushing the slot's id.
ScratchVarIndex(arg) ==
    [cls |-> "Expr", type |-> "uint64", slot |-> -1, callee |-> 0,
     code |-> <<[op |-> "int", arg |-> arg.slot]>>]

\* ScratchVar.load(): an expression pushing what the slot holds.
ScratchVarLoad(arg) ==
    [cls |-> "Expr", type |-> arg.type, slot |-> -1, callee |-> 0,
     code |-> <<[op |-> "load", arg |-> arg.slot]>>]

\* handle_arg of SubroutineCall.__teal__ (lines 277-278).
handle_arg_load(arg) == IF IsInstance(arg, "ScratchVar") THEN ScratchVarLoad(arg) ELSE arg

handle_arg(arg) == IF IsInstance(arg, "ScratchVar") THEN ScratchVarIndex(arg) ELSE arg

RECURSIVE FlattenCode(_)
FlattenCode(exprs) ==
    IF exprs = <<>> THEN <<>> ELSE Head(exprs).code \o FlattenCode(Tail(exprs))

\* TealBlock.FromOp(options, op, *args): the arguments' code in order, then op.
TealBlockFromOp(op, exprs) == Append(FlattenCode(exprs), op)

\* SubroutineCall.__teal__ (lines 259-281).
SubroutineCallTeal(c, version) ==
    IF CallsubMinVersion > version
        THEN [ok |-> FALSE, err |-> "TEAL version too low", ops |-> <<>>]
    ELSE [ok |-> TRUE, err |-> None,
          ops |-> TealBlockFromOp([op |-> "callsub", arg |-> c.subroutine],
                                  [i \in 1..Len(c.args) |-> handle_arg(c.args[i])])]

\* The compiler lowers the call node built last.
Teal(version) ==
    /\ call # NoCall
    /\ LET r == SubroutineCallTeal(call, version)
       IN  result' = [op |-> "teal", ok |-> r.ok, err |-> r.err, ops |-> r.ops]
    /\ UNCHANGED <<nextSubroutineId, issued, defs, call, stack, nextSlotId, nextObj,
                   hist, requests, pc, local, overlap>>

\* Host functions whose signature SubroutineDefinition accepts.
AnnotatedParams == {p \in GoodParams : p.ann # "absent"}

HostFunctions(n) ==
    {[callable |-> TRUE, params |-> ps, ret |-> "Expr"] : ps \in SeqsUpTo(AnnotatedParams, n)}

InitCall ==
    /\ \E impl \in HostFunctions(MaxCallParams) :
          defs = <<NewDefinition(0, impl, "uint64", NoInputTypes).def>>
    /\ nextSubroutineId = 1
    /\ issued = <<0>>
    /\ call = NoCall
    /\ result = NoResult
    /\ NoCompilation
    /\ NoThreads

NextCall ==
    \/ \E args \in SeqsUpTo(ArgValues, MaxCallParams + 1) : Invoke(args)
    \/ \E args \in SeqsUpTo(ArgValues, MaxCallParams + 1) : WrapperCall(args, {})
    \/ \E args \in SeqsUpTo(ArgValues, 1) : WrapperCall(args, {"key"})
    \/ \E version \in TealVersions : Teal(version)

SpecCall == InitCall /\ [][NextCall]_vars

\* ------------------------------------------------------------------- Spec
\* getDeclaration and evaluateSubroutine on two Definitions. A frame of stack
\* is one run of evaluateSubroutine that has called the host implementation
\* (line 429) and waits for it to return; the host function, while it runs,
\* builds call nodes with the wrappers and may query a wrapper's type_of() or
\* has_return().
Defs == 1..Len(defs)

\* var_n_loaded (lines 415-423) for the parameter named param, its ScratchVar
\* or DynamicScratchVar taking the slot given: the variable and what the host
\* function receives for it.
var_n_loaded(d, param, slot) ==
    IF param \in d.by_ref_args
        THEN [argVar |-> ScratchVarAt(slot), loaded |-> ScratchVarAt(slot)]
    ELSE [argVar |-> ScratchVarAt(slot), loaded |-> ScratchVarLoad(ScratchVarAt(slot))]

\* Lines 425-426: one fresh slot per parameter, in declaration order.
ArgumentVars(d, firstSlot) ==
    [i \in 1..argumentCount(d) |-> var_n_loaded(d, arguments(d)[i], firstSlot + i - 1).argVar]

LoadedArgs(d, firstSlot) ==
    [i \in 1..argumentCount(d) |-> var_n_loaded(d, arguments(d)[i], firstSlot + i - 1).loaded]

\* var.slot.store()
SlotStore(var) == [op |-> "store", arg |-> var.slot]

\* Line 440: the stores of argumentVars[::-1].
StoresInDeclaredOrder(argumentVars) ==
    [i \in 1..Len(argumentVars) |-> SlotStore(argumentVars[i])]

ReversedStores(argumentVars) ==
    [i \in 1..Len(argumentVars) |-> SlotStore(argumentVars[Len(argumentVars) + 1 - i])]

\* Lines 440-443: Seq(bodyOps) wrapped in a SubroutineDeclaration, obj being
\* the identity of the new object.
NewDeclaration(d, argumentVars, subroutineBody, obj) ==
    [subroutine |-> d.id,
     body |-> Append(ReversedStores(argumentVars), subroutineBody),
     obj |-> obj]

\* SubroutineCall.type_of() (lines 290-291): the Definition's returnType.
SubroutineCallTypeOf(d) == d.returnType

\* The Definitions whose getDeclaration() is called when type_of() of a call
\* node targeting d is evaluated: none, line 291 reads returnType only.
SubroutineCallRequestsDeclaration(d) == {d}

SubroutineCallRequests(d) == {}

\* The Definitions whose getDeclaration() SubroutineFnWrapper.type_of() and
\* has_return() call (lines 327-331).
FnWrapperQueryRequests(d) == {d}

\* A call node targeting defs[x], used as an argument of another call.
CallExpr(x) ==
    [cls |-> "Expr", type |-> SubroutineCallTypeOf(defs[x]), slot |-> -1, callee |-> x,
     code |-> <<[op |-> "callsub", arg |-> defs[x].id]>>]

\* The Definitions whose getDeclaration() is called while wrapper(*args)
\* builds a call node: __call__, invoke and SubroutineCall.__init__ call
\* none themselves, and line 250 calls type_of() of each Expr argument.
CallSiteRequests(args) ==
    UNION {SubroutineCallRequests(args[i].callee) :
              i \in {j \in 1..Len(args) : args[j].cls = "Expr" /\ args[j].callee # 0}}

\* The second host function: one by-value parameter, no return value.
Helper ==
    [callable |-> TRUE, ret |-> "Expr",
     params |-> <<[kind |-> "POSITIONAL_OR_KEYWORD", default |-> FALSE, ann |-> "Expr"]>>]

\* The bodies of the two host functions, as the Definitions they build
\* calls to, in order: the first calls itself and the second, the second
\* calls the first back.
BodyCalls(x) == IF x = 1 THEN <<1, 2>> ELSE <<1>>

\* Ghost history of a Definition: top-level requests asked, implementation
\* runs started and failed, whether a run started while another run of the
\* same Definition was on the stack, and the identity of the first
\* declaration cached.
NoHistory == [asked |-> 0, runs |-> 0, failures |-> 0, reentered |-> FALSE, first |-> -1]

\* Line 160, negated: self.declaration is not None.
IsCachedOrFailedBefore(x) == defs[x].declaration # NoDeclaration \/ hist[x].failures > 0

IsCachedNever(x) == FALSE

IsCached(x) == defs[x].declaration # NoDeclaration

Init ==
    /\ \E f \in HostFunctions(MaxParams) :
          defs = <<NewDefinition(0, f, "uint64", NoInputTypes).def,
                   NewDefinition(1, Helper, "none", NoInputTypes).def>>
    /\ nextSubroutineId = 2
    /\ issued = <<0, 1>>
    /\ call = NoCall
    /\ result = NoResult
    /\ stack = <<>>
    /\ nextSlotId = 0
    /\ nextObj = 0
    /\ hist = [x \in 1..2 |-> NoHistory]
    /\ requests = 0
    /\ NoThreads

OnStack(x) == \E i \in 1..Len(stack) : stack[i].d = x

\* getDeclaration finds declaration None (line 160) and evaluateSubroutine
\* runs up to the call of the implementation (lines 425-429).
NewFrame(x) ==
    [d |-> x,
     argumentVars |-> ArgumentVars(defs[x], nextSlotId),
     loadedArgs |-> LoadedArgs(defs[x], nextSlotId),
     built |-> 0, queried |-> FALSE]

Enter(x, below, asked) ==
    /\ stack' = Append(below, NewFrame(x))
    /\ nextSlotId' = nextSlotId + argumentCount(defs[x])
    /\ hist' = [hist EXCEPT ![x].runs = @ + 1,
                            ![x].asked = @ + asked,
                            ![x].reentered = @ \/ OnStack(x)]

\* An exception leaves every frame: no declaration is assigned (line 162 is
\* not reached in any of them) and the request fails.
Raise(err) ==
    /\ stack' = <<>>
    /\ hist' = [x \in Defs |-> IF OnStack(x) THEN [hist[x] EXCEPT !.failures = @ + 1]
                                ELSE hist[x]]
    /\ result' = [op |-> "getDeclaration", d |-> stack[1].d, ok |-> FALSE, err |-> err,
                  decl |-> NoDeclaration]
    /\ UNCHANGED <<defs, nextSlotId, nextObj>>

\* A request from outside any implementation: getDeclaration (lines 159-163).
GetDeclaration(x) ==
    /\ stack = <<>>
    /\ requests < MaxRequests
    /\ requests' = requests + 1
    /\ IF IsCached(x)
         THEN /\ result' = [op |-> "getDeclaration", d |-> x, ok |-> TRUE, err |-> None,
                            decl |-> defs[x].declaration]
              /\ hist' = [hist EXCEPT ![x].asked = @ + 1]
              /\ UNCHANGED <<defs, stack, nextSlotId, nextObj>>
         ELSE /\ Enter(x, stack, 1)
              /\ result' = NoResult
              /\ UNCHANGED <<defs, nextObj>>
    /\ UNCHANGED <<nextSubroutineId, issued, call, pc, local, overlap>>

Top == stack[Len(stack)]

\* getDeclaration called from inside a running implementation.
NestedGetDeclaration(x, below) ==
    IF IsCached(x)
        THEN stack' = below /\ UNCHANGED <<defs, nextSlotId, nextObj, hist, result>>
    ELSE IF Len(stack) >= MaxDepth THEN Raise("RecursionError")
    ELSE Enter(x, below, 0) /\ UNCHANGED <<defs, nextObj, result>>

\* What a host function can pass on: what it received, a literal, or a call
\* node it built.
BodyArgs == {Top.loadedArgs[i] : i \in 1..Len(Top.loadedArgs)}
                \cup {IntExpr(7)} \cup {CallExpr(x) : x \in Defs}

\* The argument lists tried: none, one value, the function's own arguments
\* passed on, and those with one of them replaced by a nested call.
BodyArgLists ==
    {<<>>, Top.loadedArgs} \cup {<<a>> : a \in BodyArgs}
        \cup {[Top.loadedArgs EXCEPT ![i] = CallExpr(x)] :
                  i \in 1..Len(Top.loadedArgs), x \in Defs}

\* The running implementation calls wrapper(*args) to build a call node.
HostBuildCall(args) ==
    /\ stack # <<>>
    /\ Top.built < Len(BodyCalls(Top.d))
    /\ LET x == BodyCalls(Top.d)[Top.built + 1]
           r == FnWrapperCall(defs[x], args, {})
           wanted == CallSiteRequests(args)
       IN  IF ~r.ok THEN Raise(r.err)
           ELSE IF wanted # {}
             THEN \E y \in wanted : NestedGetDeclaration(y, stack)
           ELSE /\ stack' = [stack EXCEPT ![Len(stack)].built = @ + 1]
                /\ UNCHANGED <<defs, nextSlotId, nextObj, hist, result>>
    /\ UNCHANGED <<nextSubroutineId, issued, call, requests, pc, local, overlap>>

\* The running implementation calls wrapper.type_of() or has_return().
HostQuery(x) ==
    /\ stack # <<>>
    /\ ~Top.queried
    /\ \E y \in FnWrapperQueryRequests(x) :
          NestedGetDeclaration(y, [stack EXCEPT ![Len(stack)].queried = TRUE])
    /\ UNCHANGED <<nextSubroutineId, issued, call, requests, pc, local, overlap>>

\* The running implementation returns an expression: lines 431-443 build the
\* declaration and line 162 caches it; the request that asked for it returns.
HostReturnsExpr ==
    /\ stack # <<>>
    /\ Top.built = Len(BodyCalls(Top.d))
    /\ LET x == Top.d
           decl == NewDeclaration(defs[x], Top.argumentVars,
                                  [op |-> "body", arg |-> defs[x].id], nextObj)
       IN  /\ defs' = [defs EXCEPT ![x].declaration = decl]
           /\ nextObj' = nextObj + 1
           /\ stack' = SubSeq(stack, 1, Len(stack) - 1)
           /\ result' = IF Len(stack) = 1
                          THEN [op |-> "getDeclaration", d |-> x, ok |-> TRUE,
                                err |-> None, decl |-> decl]
                          ELSE result
           /\ hist' = IF hist[x].first = -1
                        THEN [hist EXCEPT ![x].first = decl.obj]
                        ELSE hist
    /\ UNCHANGED <<nextSubroutineId, issued, call, nextSlotId, requests, pc, local, overlap>>

\* The running implementation raises, or returns something that is no Expr
\* (lines 431-436).
HostFails(err) ==
    /\ stack # <<>>
    /\ Raise(err)
    /\ UNCHANGED <<nextSubroutineId, issued, call, requests, pc, local, overlap>>

Next ==
    \/ \E x \in Defs : GetDeclaration(x)
    \/ \E args \in (IF stack = <<>> THEN {} ELSE BodyArgLists) : HostBuildCall(args)
    \/ \E x \in Defs : HostQuery(x)
    \/ HostReturnsExpr
    \/ \E err \in {"implementation raised", "not a PyTeal expression"} : HostFails(err)

Spec == Init /\ [][Next]_vars

\* A called implementation runs on: the interpreter takes its next step.
HostStep == stack # <<>> /\ Next

\* The same system started from host functions all of whose parameters are
\* by-value, with the fairness stated.
ByValueFunctions(n) == {f \in HostFunctions(n) : \A i \in 1..Len(f.params) : f.params[i].ann = "Expr"}

InitFair == Init /\ defs[1].implementation \in ByValueFunctions(MaxParams)

FairSpec == InitFair /\ [][Next]_vars /\ WF_vars(HostStep)

\* ------------------------------------------------------------ SpecThreads
\* Lines 46-47 as the interpreter runs them, a thread switch being possible
\* between any two steps: self.id = nextSubroutineId (read_id), then the
\* read (load) and the write (store) of nextSubroutineId += 1.
Threads == 1..NumThreads

InProgress(t) == pc[t] \in {"load", "store"}

InitThreads ==
    /\ nextSubroutineId = 0
    /\ issued = <<>>
    /\ defs = <<>>
    /\ call = NoCall
    /\ result = NoResult
    /\ NoCompilation
    /\ pc = [t \in Threads |-> "read_id"]
    /\ local = [t \in Threads |-> [id |-> -1, tmp |-> -1, built |-> 0]]
    /\ overlap = FALSE

\* self.id = SubroutineDefinition.nextSubroutineId
ReadId(t) ==
    /\ pc[t] = "read_id"
    /\ local[t].built < PerThread
    /\ local' = [local EXCEPT ![t].id = TakeId(nextSubroutineId)]
    /\ issued' = Append(issued, TakeId(nextSubroutineId))
    /\ overlap' = (overlap \/ \E u \in Threads \ {t} : InProgress(u))
    /\ pc' = [pc EXCEPT ![t] = "load"]
    /\ UNCHANGED <<nextSubroutineId, defs, call, result, stack, nextSlotId, nextObj,
                   hist, requests>>

\* the read of SubroutineDefinition.nextSubroutineId += 1
LoadCounter(t) ==
    /\ pc[t] = "load"
    /\ local' = [local EXCEPT ![t].tmp = nextSubroutineId]
    /\ pc' = [pc EXCEPT ![t] = "store"]
    /\ UNCHANGED <<nextSubroutineId, issued, defs, call, result, stack, nextSlotId,
                   nextObj, hist, requests, overlap>>

\* the write of SubroutineDefinition.nextSubroutineId += 1; the rest of
\* __init__ touches only the new object.
StoreCounter(t) ==
    /\ pc[t] = "store"
    /\ nextSubroutineId' = BumpCounter(local[t].tmp)
    /\ local' = [local EXCEPT ![t].built = @ + 1]
    /\ pc' = [pc EXCEPT ![t] = "read_id"]
    /\ UNCHANGED <<issued, defs, call, result, stack, nextSlotId, nextObj, hist,
                   requests, overlap>>

NextThreads == \E t \in Threads : ReadId(t) \/ LoadCounter(t) \/ StoreCounter(t)

SpecThreads == InitThreads /\ [][NextThreads]_vars

\* ------------------------------------------------- properties of SpecDef
\* C4: ids are handed out in strictly increasing order (so no two
\* constructions, failed ones included, share an id), and a live Definition
\* keeps the id its construction was given, below the counter.
C4_IdsUniqueIncreasing ==
    /\ \A i, j \in 1..Len(issued) : i < j => issued[i] < issued[j]
    /\ \A k \in 1..Len(defs) :
          /\ defs[k].id < nextSubroutineId
          /\ \E i \in 1..Len(issued) : issued[i] = defs[k].id
    /\ (result.op = "construct" /\ result.ok) => defs[1].id = issued[Len(issued)]

\* Three constructions, the first succeeded and the later two failed: the
\* Definition still has id 0 and the failed constructions took ids 1 and 2.
C4_Witness ==
    /\ Len(issued) = 3
    /\ result.op = "construct" /\ ~result.ok
    /\ defs # <<>> /\ defs[1].id = 0
    /\ issued[3] = 2

\* The by-value parameters of d whose annotated type differs from the
\* declared input type of their position.
Contradicting(d) ==
    {i \in 1..argumentCount(d) :
        /\ d.input_types # NoInputTypes
        /\ d.implementation.params[i].ann = "Expr"
        /\ ClassTypeOf("Expr") # d.input_types[i]}

\* C7: no Definition is constructed from a by-value annotated parameter whose
\* annotated type contradicts the declared input type of its position.
C7_ContradictionRejected == \A k \in 1..Len(defs) : Contradicting(defs[k]) = {}

\* ------------------------------------------------ properties of SpecCall
ReachedInvoke ==
    \/ result.op = "invoke"
    \/ result.op = "__call__" /\ result.kwargs = {}

\* C5: an argument list whose length differs from the parameter count makes
\* invoke fail with the arity error (whatever the kinds of the arguments),
\* and no call node of the wrong length exists.
C5_ArityMismatchFails ==
    /\ (ReachedInvoke /\ Len(result.args) # argumentCount(defs[1]))
          => (~result.ok /\ result.err = "incorrect number of arguments")
    /\ call # NoCall => Len(call.args) = argumentCount(defs[1])

\* Too few arguments, the one given of the wrong kind: the arity error wins.
C5_Witness ==
    /\ result.op = "invoke" /\ ~result.ok
    /\ argumentCount(defs[1]) = 2 /\ Len(result.args) = 1
    /\ result.args[1].cls # defs[1].expected_arg_types[1]
    /\ result.err = "incorrect number of arguments"

\* The positions where a by-reference parameter gets no reference variable
\* or a by-value parameter gets no value expression.
Offending(d, args) ==
    {i \in 1..Len(args) :
        \/ i \in d.by_ref_args /\ args[i].cls # "ScratchVar"
        \/ i \notin d.by_ref_args /\ args[i].cls # "Expr"}

Lowest(S) == CHOOSE i \in S : \A j \in S : i <= j

\* C6: with the right number of arguments, invoke fails when some argument's
\* kind does not match its parameter's, naming the lowest such index
\* (0-based); a call node exists only with every kind matching.
C6_KindMismatchFails ==
    /\ (ReachedInvoke /\ Len(result.args) = argumentCount(defs[1]))
          => /\ Offending(defs[1], result.args) # {}
                   => /\ ~result.ok
                      /\ result.err = "argument had unexpected type"
                      /\ result.index = Lowest(Offending(defs[1], result.args)) - 1
             /\ result.ok => Offending(defs[1], result.args) = {}
    /\ call # NoCall => Offending(defs[1], call.args) = {}

\* (by-value, by-reference) called with (reference variable, value
\* expression): both positions offend and index 0 is named.
C6_Witness ==
    /\ result.op = "invoke" /\ ~result.ok /\ result.index = 0
    /\ defs[1].expected_arg_types = <<"Expr", "ScratchVar">>
    /\ Len(result.args) = 2
    /\ result.args[1].cls = "ScratchVar" /\ result.args[2].cls = "Expr"

\* What the call site is to push for each argument: the slot index of a
\* reference variable, the code of a value expression.
RECURSIVE ExpectedPushes(_)
ExpectedPushes(args) ==
    IF args = <<>> THEN <<>>
    ELSE (IF Head(args).cls = "ScratchVar"
            THEN <<[op |-> "int", arg |-> Head(args).slot]>>
            ELSE Head(args).code) \o ExpectedPushes(Tail(args))

\* C3: at a supported version the lowered call is the arguments' pushes in
\* argument order (slot index for a reference variable, never a load of the
\* slot) followed by exactly one callsub addressed at the Definition.
C3_CallLowering ==
    (result.op = "teal" /\ result.ok) =>
        /\ result.ops = Append(ExpectedPushes(call.args),
                               [op |-> "callsub", arg |-> defs[1].id])
        /\ Cardinality({i \in 1..Len(result.ops) : result.ops[i].op = "callsub"}) = 1
        /\ \A i \in 1..Len(result.ops) : result.ops[i].op # "load"

\* A call with a value expression and a reference variable was lowered.
C3_Witness ==
    /\ result.op = "teal" /\ result.ok
    /\ Len(call.args) = 2
    /\ call.args[1].cls = "Expr" /\ call.args[2].cls = "ScratchVar"
    /\ result.ops = <<[op |-> "int", arg |-> 7], [op |-> "int", arg |-> 5],
                      [op |-> "callsub", arg |-> 0]>>

\* --------------------------------------------- properties of SpecThreads
RECURSIVE SumBuilt(_)
SumBuilt(T) ==
    IF T = {} THEN 0
    ELSE LET t == CHOOSE x \in T : TRUE IN local[t].built + SumBuilt(T \ {t})

IdsDistinct == \A i, j \in 1..Len(issued) : i # j => issued[i] # issued[j]

\* With every construction finished, the counter has counted each of them.
NoIncrementLost ==
    (\A t \in Threads : ~InProgress(t)) => nextSubroutineId = SumBuilt(Threads)

Cached(x) == defs[x].declaration # NoDeclaration

C2_ReversePrologue ==
    [][\A x \in Defs :
          defs'[x].declaration # defs[x].declaration =>
              /\ stack # <<>> /\ Top.d = x
              /\ LET n == argumentCount(defs[x])
                     avars == Top.argumentVars
                     body == defs'[x].declaration.body
                 IN  /\ Len(avars) = n /\ Len(body) = n + 1
                     /\ Cardinality({avars[i].slot : i \in 1..n}) = n
                     /\ \A i \in 1..n :
                           body[i] = [op |-> "store", arg |-> avars[n + 1 - i].slot]
                     /\ body[n + 1] = [op |-> "body", arg |-> defs[x].id]]_vars

\* A 3-parameter procedure compiled first: p0, p1, p2 have slots 0, 1, 2 and
\* the stores are p2, p1, p0.
C2_Witness ==
    /\ argumentCount(defs[1]) = 3
    /\ Cached(1)
    /\ defs[1].declaration.body =
          <<[op |-> "store", arg |-> 2], [op |-> "store", arg |-> 1],
            [op |-> "store", arg |-> 0], [op |-> "body", arg |-> 0]>>

NoReentryByCalls == \A i \in 1..(Len(stack) - 1) : stack[i].queried

\* The implementation of a compiled Definition that saw no failure and no
\* re-entered run has run once, and a running one has built no more calls
\* than its body holds.
RunsOnce ==
    /\ \A x \in Defs :
          (Cached(x) /\ hist[x].failures = 0 /\ ~hist[x].reentered) => hist[x].runs = 1
    /\ \A i \in 1..Len(stack) : stack[i].built <= Len(BodyCalls(stack[i].d))

\* C10: compiling a procedure whose body calls itself or is called back by
\* a procedure it calls terminates, building the calls starts no further run
\* of any implementation, and the implementation runs once.
C10_RecursiveCompiles ==
    /\ [](NoReentryByCalls /\ RunsOnce)
    /\ (stack # <<>>) ~> (stack = <<>>)

\* Both procedures are compiled: the first, whose body calls itself and the
\* second, and the second, whose body calls the first; each implementation
\* ran once and no request failed.
C10_Witness ==
    /\ stack = <<>>
    /\ \E i \in 1..Len(BodyCalls(1)) : BodyCalls(1)[i] = 1
    /\ \E i \in 1..Len(BodyCalls(1)) : \E j \in 1..Len(BodyCalls(2)) :
          BodyCalls(1)[i] = 2 /\ BodyCalls(2)[j] = 1
    /\ Cached(1) /\ Cached(2)
    /\ hist[1].runs = 1 /\ hist[2].runs = 1
    /\ hist[1].failures = 0 /\ hist[2].failures = 0

====
